---- MODULE Spec2Model ----
(***************************************************************************)
(* Shapetone: the render loop (ShapetoneRenderer), the media caches        *)
(* (imageProcessor), the GIF sequencer (GifPlayer), the mesh rasterizer    *)
(* state (objectLoader), the application callbacks (App) and the raster /  *)
(* vector shape passes, as state machines.                                 *)
(*                                                                         *)
(* Units: angles are counted in units of ROTATION_SPEED (0.005 rad); time  *)
(* is counted in milliseconds; radii are exact rationals r = rNum / RDen.  *)
(***************************************************************************)
EXTENDS Integers, Sequences, FiniteSets, TLC

\* ------------------------------------------------------------------ bounds
MaxInflight == 2
LoopInflight == 1
MaxRaf == 2
MaxAuto == 2
MaxNow == 20
TimeStep == 20
MaxFrames == 2
MaxNowGif == 100
GridCols == 2
BLevels == 5
MaxObjVerts == 2
MaxObjLines == 3
MaxFaceRefs == 4
MaxIndices == 6
MaxTris == 2

\* ------------------------------------------------------- program constants
ROTATION_SPEED == 1
MinGifDelay == 20
DefaultGifDelay == 10
DisposeRestoreBackground == 2
\* maxRadius = spacing * 0.48, in hundredths
RadiusFactor == 48
\* the radius under which a cell is skipped, 0.3, in tenths
MinRadius == 3
\* the font size under which drawText draws nothing
MinFontSize == 1

NULL == "null"

VARIABLES
  \* App (React state) and its pending effect
  appState, effectPending,
  \* ShapetoneRenderer fields
  state, running, dirty, animId, rafQueue,
  \* imageProcessor module caches
  cachedImage, cachedVideo, cachedDataUrl, gifPlayer,
  \* objectLoader module state
  currentMesh, scene, autoRotationY,
  \* media acquisitions in flight, and the record of the one started last
  inflight, lastStart, clearedSince,
  \* performance.now()
  now,
  \* observation of the last operation
  lastOp, tickRedraws, tickDirty, changedSinceRedraw, shown, autoFrames,
  \* a brightness grid, and what the raster pass and toSVG make of it
  grid, rasterOut, svgOut,
  \* parseOBJ and parseSTL at work, the arguments of the last
  \* computeBrightnessGrid call, and the reusable grid buffer
  obj, stl, sampleIn, cachedGrid

vars == <<appState, effectPending, state, running, dirty, animId, rafQueue,
          cachedImage, cachedVideo, cachedDataUrl, gifPlayer,
          currentMesh, scene, autoRotationY, inflight, lastStart, clearedSince, now,
          lastOp, tickRedraws, tickDirty, changedSinceRedraw, shown, autoFrames,
          grid, rasterOut, svgOut, obj, stl, sampleIn, cachedGrid>>

shapeVars == <<grid, rasterOut, svgOut>>

parseVars == <<obj, stl, sampleIn, cachedGrid>>

Max(a, b) == IF a >= b THEN a ELSE b
\* ------------------------------------------------------------ GifPlayer
\* A decoded frame: dims {left, top, width, height}, patch (0 = transparent
\* pixel, alpha 0), delay (the delay field of the decoded frame), disposalType.
GifW == 2
GifH == 2
Pixels == (0 .. GifW - 1) \X (0 .. GifH - 1)

InRect(p, l, t, w, h) == /\ p[1] >= l /\ p[1] < l + w
                         /\ p[2] >= t /\ p[2] < t + h

BlankCanvas == [p \in Pixels |-> 0]

\* frameCtx.clearRect(l, t, w, h)
ClearRect(canvas, l, t, w, h) ==
  [p \in Pixels |-> IF InRect(p, l, t, w, h) THEN 0 ELSE canvas[p]]

\* frameCtx.drawImage(patchCanvas, left, top): source-over compositing, so a
\* transparent patch pixel leaves the destination pixel as it was.
DrawPatch(canvas, f) ==
  [p \in Pixels |->
     IF InRect(p, f.left, f.top, f.width, f.height)
          /\ f.patch[<<p[1] - f.left, p[2] - f.top>>] # 0
     THEN f.patch[<<p[1] - f.left, p[2] - f.top>>]
     ELSE canvas[p]]

NoGif == [url |-> NULL, frames |-> <<>>, currentIndex |-> 0,
          lastFrameTime |-> 0, frameCanvas |-> BlankCanvas]

\* GifPlayer.renderFrame(index); index is 0-based as in the source, frames
\* is a 1-based sequence.
RenderFrameAlwaysClears(g, index) ==
  LET frame == g.frames[index + 1]
      cleared == IF index > 0
                 THEN ClearRect(g.frameCanvas, g.frames[index].left, g.frames[index].top,
                                g.frames[index].width, g.frames[index].height)
                 ELSE g.frameCanvas
  IN  [g EXCEPT !.frameCanvas = DrawPatch(cleared, frame)]

RenderFrame(g, index) ==
  LET frame == g.frames[index + 1]
      cleared == IF index > 0
                 THEN LET prevFrame == g.frames[index]
                      IN  IF prevFrame.disposalType = DisposeRestoreBackground
                          THEN ClearRect(g.frameCanvas, prevFrame.left, prevFrame.top,
                                         prevFrame.width, prevFrame.height)
                          ELSE g.frameCanvas
                 ELSE g.frameCanvas
  IN  [g EXCEPT !.frameCanvas = DrawPatch(cleared, frame)]

\* GifPlayer.load(buffer), for a decoded frame list with at least one frame
GifLoad(url, frames, t) ==
  RenderFrame([url |-> url, frames |-> frames, currentIndex |-> 0,
               lastFrameTime |-> t, frameCanvas |-> BlankCanvas], 0)

\* the delay GifPlayer.advance waits on a frame of declared delay d
EffectiveDelay(d) == Max(MinGifDelay, (IF d = 0 THEN DefaultGifDelay ELSE d) * 10)

\* advance() that does not wait for the delay
AdvanceNoWait(g, t) ==
  IF Len(g.frames) <= 1 THEN g
  ELSE LET idx == (g.currentIndex + 1) % Len(g.frames)
       IN  [RenderFrame([g EXCEPT !.currentIndex = idx], idx) EXCEPT !.lastFrameTime = t]

\* GifPlayer.advance() at performance.now() = t
Advance(g, t) ==
  IF Len(g.frames) <= 1 THEN g
  ELSE LET frame == g.frames[g.currentIndex + 1]
           delay == EffectiveDelay(frame.delay)
       IN  IF t - g.lastFrameTime >= delay
           THEN LET idx == (g.currentIndex + 1) % Len(g.frames)
                IN  [RenderFrame([g EXCEPT !.currentIndex = idx], idx)
                       EXCEPT !.lastFrameTime = t]
           ELSE g

FrameCount(g) == Len(g.frames)


\* ------------------------------------------------------------ media files
\* What the collaborator hands to handleMediaUpload: a source identity (url),
\* the kind tag, and what acquisition will find: whether the element loads
\* (image / video), the decoded frame list (gif), the file extension (mesh).
SolidPatch(w, h, c) == [q \in (0 .. w - 1) \X (0 .. h - 1) |-> c]

Frame(l, t, w, h, d, disp, c) ==
  [left |-> l, top |-> t, width |-> w, height |-> h, delay |-> d,
   disposalType |-> disp, patch |-> SolidPatch(w, h, c)]

File(u, k, ok, fr, ext) == [url |-> u, kind |-> k, ok |-> ok, frames |-> fr, ext |-> ext]

ImgA == File("imgA", "image", TRUE, <<>>, "png")
ImgBad == File("imgBad", "image", FALSE, <<>>, "png")
VidA == File("vidA", "video", TRUE, <<>>, "mp4")
Gif2 == File("gif2", "gif", TRUE,
             <<Frame(0, 0, 2, 2, 2, 1, 1), Frame(0, 0, 1, 1, 2, 2, 2)>>, "gif")
Gif1 == File("gif1", "gif", TRUE, <<Frame(0, 0, 2, 2, 2, 1, 1)>>, "gif")
Gif0 == File("gif0", "gif", TRUE, <<>>, "gif")
MeshA == File("3d://a.obj", "obj3d", TRUE, <<>>, "obj")
MeshB == File("3d://b.stl", "obj3d", TRUE, <<>>, "stl")

Files == {ImgA, VidA, Gif2, Gif1, MeshA}
RaceFiles == {ImgA, ImgBad, VidA, Gif0, MeshA}

\* ------------------------------------------------------------ App state
Identity == [scale |-> 100, offsetX |-> 0, offsetY |-> 0]

DEFAULT_STATE ==
  [uploadedImage |-> NULL, mediaType |-> NULL, shape |-> "circle",
   customSvg |-> FALSE,
   grid |-> [density |-> 20],
   mapping |-> [invert |-> FALSE, minSize |-> 0, maxSize |-> 100],
   view |-> Identity, mediaTransform |-> Identity,
   obj3d |-> [autoRotate |-> TRUE, rotationX |-> 0, rotationY |-> 0]]

SHOWCASE_STATE ==
  [DEFAULT_STATE EXCEPT !.grid = [density |-> 6],
                        !.mediaTransform = [scale |-> 88, offsetX |-> 0, offsetY |-> 0]]

\* ------------------------------------------------------------ objectLoader
NoMesh == [url |-> NULL, parent |-> FALSE, rotX |-> 0, rotY |-> 0]

has3DObject == currentMesh # NoMesh

\* clear3DObject(): [mesh, scene] -> mesh
clear3DObject(mesh, sc) == IF mesh # NoMesh /\ sc THEN NoMesh ELSE mesh

\* if (currentMesh && scene) { scene.remove(currentMesh); geometry.dispose();
\* material.dispose() } of clear3DObject and load3DObject: the mesh disposed
Disposes(mesh, sc) == IF mesh # NoMesh /\ sc THEN mesh.url ELSE NULL

\* render3DToCanvas(..., autoRotate, manualRotX, manualRotY) with a current
\* mesh: the new autoRotationY and the mesh as rendered.
AutoStepAlways(a, autoRotate) == a + ROTATION_SPEED

AutoStep(a, autoRotate) == IF autoRotate THEN a + ROTATION_SPEED ELSE a

Render3DMesh(mesh, a, o) ==
  [mesh EXCEPT !.parent = TRUE, !.rotX = o.rotationX,
               !.rotY = AutoStep(a, o.autoRotate) + o.rotationY]

\* ------------------------------------------------------------ imageProcessor
\* isAnimating()
isAnimating ==
  \/ cachedVideo # NULL
  \/ (gifPlayer # NoGif /\ FrameCount(gifPlayer) > 1)
  \/ has3DObject

\* getMediaElement(), as [src, url] of the producer it returns (src NULL: null)
NoMedia == [src |-> NULL, url |-> NULL]

getMediaElement(mesh, video, gif, image) ==
  IF mesh # NoMesh THEN NoMedia
  ELSE IF video # NULL THEN [src |-> "video", url |-> video]
  ELSE IF gif # NoGif THEN [src |-> "gif", url |-> gif.url]
  ELSE IF image # NULL THEN [src |-> "image", url |-> image]
  ELSE NoMedia

\* getMediaElementFor3D(): the render target of the mesh when there is one
getMediaElementFor3D(mesh, video, gif, image) ==
  IF mesh # NoMesh THEN [src |-> "obj3d", url |-> mesh.url]
  ELSE getMediaElement(mesh, video, gif, image)


\* The four module caches as one record, for the preload functions
Caches == [image |-> cachedImage, video |-> cachedVideo,
           dataUrl |-> cachedDataUrl, gif |-> gifPlayer]

\* clearAllMedia()
clearAllMedia(c) == [image |-> NULL, video |-> NULL, dataUrl |-> NULL, gif |-> NoGif]

\* The synchronous head of preloadImage / preloadGif / preloadVideo, and of
\* the obj3d branch of handleMediaUpload (clearAllMedia)
PreloadStart(f, c) ==
  CASE f.kind = "image" -> [c EXCEPT !.video = NULL, !.gif = NoGif]
    [] f.kind = "gif"   -> [c EXCEPT !.image = NULL, !.video = NULL]
    [] f.kind = "video" -> [c EXCEPT !.image = NULL, !.gif = NoGif]
    [] OTHER            -> clearAllMedia(c)

\* The early return of the preload functions: the url is the cached one and
\* the element of that kind is present
CacheHit(f, c) ==
  /\ c.dataUrl = f.url
  /\ CASE f.kind = "image" -> c.image # NULL
       [] f.kind = "gif"   -> c.gif # NoGif
       [] f.kind = "video" -> c.video # NULL
       [] OTHER            -> FALSE

\* String.prototype.toLowerCase on the extensions that occur
ToLowerCase(e) ==
  CASE e = "OBJ" -> "obj"
    [] e = "STL" -> "stl"
    [] e = "TXT" -> "txt"
    [] OTHER     -> e

\* load3DObject: the extension test, on file.name.split('.').pop()?.toLowerCase()
SupportedExt(f) == ToLowerCase(f.ext) \in {"obj", "stl"}

\* Whether the acquisition of f ends in success: the element loads, the GIF
\* decodes to at least one frame
AcquireOk(f) ==
  CASE f.kind = "gif" -> Len(f.frames) > 0
    [] OTHER          -> f.ok

\* The completion of an acquisition that succeeds: the caches after it
PreloadDone(f, c, t) ==
  CASE f.kind = "image" -> [c EXCEPT !.image = f.url, !.dataUrl = f.url]
    [] f.kind = "gif"   -> [c EXCEPT !.gif = GifLoad(f.url, f.frames, t), !.dataUrl = f.url]
    [] f.kind = "video" -> [c EXCEPT !.video = f.url, !.dataUrl = f.url]
    [] OTHER            -> c

\* setState of handleMediaUpload
UploadedState(s, f) ==
  [s EXCEPT !.uploadedImage = f.url, !.mediaType = f.kind,
            !.view = Identity, !.mediaTransform = Identity]

\* setState of handleClearImage
ClearedState(s) ==
  [s EXCEPT !.uploadedImage = NULL, !.mediaType = NULL,
            !.view = Identity, !.mediaTransform = Identity]

SetCaches(c) ==
  /\ cachedImage' = c.image
  /\ cachedVideo' = c.video
  /\ cachedDataUrl' = c.dataUrl
  /\ gifPlayer' = c.gif

RendererUnchanged == UNCHANGED <<state, running, dirty, animId, rafQueue>>

\* What is recorded of an operation: its name, and for a tick of loop() the
\* number of render() calls it made and the dirty flag it found
Observe(op, redraws, wasDirty) ==
  /\ lastOp' = op
  /\ tickRedraws' = redraws
  /\ tickDirty' = wasDirty

NotShown == [kind |-> "none", src |-> NULL, url |-> NULL]

\* The record of the acquisition started last
NoStart == [url |-> NULL, kind |-> NULL, status |-> "none", over |-> FALSE,
            prior |-> NoMedia, disposed |-> NULL]

\* A grid of no cells, and the output of a pass that has not run
NoGrid == [cols |-> 0, rows |-> 0, cells |-> <<>>]
NotRun == [ran |-> FALSE, prims |-> {}]

\* parseOBJ not called, parseSTL not called, computeBrightnessGrid not called,
\* the grid buffer not allocated
NoObj == [tempVerts |-> 0, indices |-> <<>>, lines |-> 0, tag |-> "none",
          refs |-> <<>>, face |-> <<>>, done |-> FALSE]
NoStl == [called |-> FALSE, buf |-> [ascii |-> FALSE, count |-> 0, recs |-> <<>>],
          i |-> 0, lastIndex |-> 0, vertices |-> <<>>, normals |-> <<>>,
          status |-> "none"]
NoSample ==
  [called |-> FALSE, media |-> [w |-> 0, h |-> 0, tw |-> 1, th |-> 1, tile |-> <<>>],
   W |-> 0, H |-> 0, spacing |-> 1, contrast |-> 10, brightness |-> 0,
   mt |-> Identity, bg |-> 0, prevSize |-> 0, centers |-> <<>>]
NoBuffer == [alloc |-> FALSE, size |-> 0]

\* ------------------------------------------------------------ Init
\* A renderer constructed and not started
Init ==
  /\ appState = SHOWCASE_STATE
  /\ effectPending = TRUE
  /\ state = SHOWCASE_STATE
  /\ running = FALSE
  /\ dirty = TRUE
  /\ animId = 0
  /\ rafQueue = {}
  /\ cachedImage = NULL
  /\ cachedVideo = NULL
  /\ cachedDataUrl = NULL
  /\ gifPlayer = NoGif
  /\ currentMesh = NoMesh
  /\ scene = FALSE
  /\ autoRotationY = 0
  /\ inflight = {}
  /\ lastStart = NoStart
  /\ clearedSince = FALSE
  /\ now = 0
  /\ lastOp = "other"
  /\ tickRedraws = 0
  /\ tickDirty = FALSE
  /\ changedSinceRedraw = TRUE
  /\ shown = NotShown
  /\ autoFrames = 0
  /\ grid = NoGrid
  /\ rasterOut = NotRun
  /\ svgOut = NotRun
  /\ obj = NoObj
  /\ stl = NoStl
  /\ sampleIn = NoSample
  /\ cachedGrid = NoBuffer

\* ------------------------------------------------------------ App
\* handleMediaUpload(dataUrl, mediaType, file) up to its first suspension,
\* with at most maxInflight acquisitions in flight; hist: whether the record
\* of the acquisition started last is kept.
\* When the preload function returns early the continuation (setState) runs
\* in the same task; an unsupported mesh extension throws in the same task.
HandleMediaUpload(f, maxInflight, hist) ==
  /\ f \notin inflight
  /\ Cardinality(inflight) < maxInflight
  /\ LET c1 == PreloadStart(f, Caches)
         hit == CacheHit(f, Caches)
         bad == f.kind = "obj3d" /\ ~SupportedExt(f)
         st == IF hit THEN "ok" ELSE IF bad THEN "failed" ELSE "pending"
         prior == getMediaElementFor3D(currentMesh, cachedVideo, gifPlayer, cachedImage)
     IN  /\ currentMesh' = clear3DObject(currentMesh, scene)
         /\ SetCaches(c1)
         /\ inflight' = IF st = "pending" THEN inflight \cup {f} ELSE inflight
         /\ lastStart' = IF hist
                         THEN [url |-> f.url, kind |-> f.kind, status |-> st,
                               over |-> inflight # {},
                               prior |-> prior,
                               disposed |-> Disposes(currentMesh, scene)]
                         ELSE NoStart
         /\ IF hit
            THEN appState' = UploadedState(appState, f) /\ effectPending' = TRUE
            ELSE UNCHANGED <<appState, effectPending>>
         /\ Observe("other", 0, FALSE)
  /\ clearedSince' = FALSE
  /\ shown' = NotShown
  /\ RendererUnchanged
  /\ UNCHANGED <<scene, autoRotationY, now, autoFrames, changedSinceRedraw>>
  /\ UNCHANGED shapeVars
  /\ UNCHANGED parseVars

\* The status of the acquisition started last, after f's acquisition ended
Ended(f, st) == IF lastStart.url = f.url /\ lastStart.status = "pending"
                THEN [lastStart EXCEPT !.status = st] ELSE lastStart

\* The acquisition of f completes: the load event and the continuation of
\* handleMediaUpload after its await, or its catch
AcquireDone(f) ==
  /\ f \in inflight
  /\ inflight' = inflight \ {f}
  /\ IF AcquireOk(f)
     THEN /\ lastStart' = Ended(f, "ok")
          /\ SetCaches(PreloadDone(f, Caches, now))
          /\ IF f.kind = "obj3d"
             THEN /\ currentMesh' = [NoMesh EXCEPT !.url = f.url]
                  /\ autoRotationY' = 0
                  /\ autoFrames' = 0
             ELSE UNCHANGED <<currentMesh, autoRotationY, autoFrames>>
          /\ appState' = UploadedState(appState, f)
          /\ effectPending' = TRUE
          /\ Observe("other", 0, FALSE)
     ELSE /\ lastStart' = Ended(f, "failed")
          /\ UNCHANGED <<cachedImage, cachedVideo, cachedDataUrl, gifPlayer,
                         currentMesh, autoRotationY, autoFrames, appState, effectPending>>
          /\ Observe("other", 0, FALSE)
  /\ shown' = NotShown
  /\ RendererUnchanged
  /\ UNCHANGED <<scene, clearedSince, now, changedSinceRedraw>>
  /\ UNCHANGED shapeVars
  /\ UNCHANGED parseVars

\* handleClearImage()
HandleClearImage ==
  /\ currentMesh' = clear3DObject(currentMesh, scene)
  /\ SetCaches(clearAllMedia(Caches))
  /\ appState' = ClearedState(appState)
  /\ effectPending' = TRUE
  /\ clearedSince' = TRUE
  /\ shown' = NotShown
  /\ Observe("clear", 0, FALSE)
  /\ RendererUnchanged
  /\ UNCHANGED <<scene, autoRotationY, inflight, lastStart, now, autoFrames,
                 changedSinceRedraw>>
  /\ UNCHANGED shapeVars
  /\ UNCHANGED parseVars

\* CanvasView: useEffect(() => renderer.updateState(state), [state])
UpdateState ==
  /\ effectPending
  /\ effectPending' = FALSE
  /\ state' = appState
  /\ dirty' = TRUE
  /\ changedSinceRedraw' = TRUE
  /\ Observe("other", 0, FALSE)
  /\ UNCHANGED <<appState, running, animId, rafQueue, cachedImage, cachedVideo,
                 cachedDataUrl, gifPlayer, currentMesh, scene, autoRotationY, inflight,
                 lastStart, clearedSince, now, shown, autoFrames>>
  /\ UNCHANGED shapeVars
  /\ UNCHANGED parseVars

\* handleObj3dChange(obj3d)
Obj3dChange(o) ==
  /\ appState.obj3d # o
  /\ appState' = [appState EXCEPT !.obj3d = o]
  /\ effectPending' = TRUE
  /\ Observe("other", 0, FALSE)
  /\ RendererUnchanged
  /\ UNCHANGED <<cachedImage, cachedVideo, cachedDataUrl, gifPlayer, currentMesh,
                 scene, autoRotationY, inflight, lastStart, clearedSince, now,
                 changedSinceRedraw, shown, autoFrames>>
  /\ UNCHANGED shapeVars
  /\ UNCHANGED parseVars

\* ------------------------------------------------------------ ShapetoneRenderer
\* The condition of loop() under which it redraws
NeedsRedrawNoAnimating ==
  \/ dirty
  \/ state.mediaType \in {"video", "gif", "obj3d"}

\* the condition without the dirty flag
NeedsRedrawNoDirty ==
  \/ state.mediaType \in {"video", "gif", "obj3d"}
  \/ isAnimating

NeedsRedraw ==
  \/ dirty
  \/ state.mediaType \in {"video", "gif", "obj3d"}
  \/ isAnimating

\* getMediaElementFor3D as called by render() and toSVG() with the obj3d
\* settings o: render3DToCanvas adds the mesh to the (lazily created) scene,
\* steps the auto-rotation and sets the mesh rotation
Render3D(o) ==
  IF has3DObject
  THEN /\ currentMesh' = Render3DMesh(currentMesh, autoRotationY, o)
       /\ autoRotationY' = AutoStep(autoRotationY, o.autoRotate)
       /\ scene' = TRUE
       /\ autoFrames' = IF o.autoRotate THEN autoFrames + 1 ELSE autoFrames
  ELSE UNCHANGED <<currentMesh, autoRotationY, scene, autoFrames>>

\* The cap of the auto-rotation counter
AutoCap(o) == (has3DObject /\ o.autoRotate) => autoRotationY < MaxAuto

\* What render() leaves on the canvas for the media it resolved
Shown(media, s) ==
  IF media = NoMedia
  THEN IF s.uploadedImage = NULL
       THEN [kind |-> "placeholder", src |-> NULL, url |-> NULL]
       ELSE [kind |-> "background", src |-> NULL, url |-> NULL]
  ELSE [kind |-> "mosaic", src |-> media.src, url |-> media.url]

\* render()
Render ==
  LET g1 == IF state.mediaType = "gif" /\ gifPlayer # NoGif
            THEN Advance(gifPlayer, now) ELSE gifPlayer
      media == getMediaElementFor3D(currentMesh, cachedVideo, g1, cachedImage)
  IN  /\ AutoCap(state.obj3d)
      /\ gifPlayer' = g1
      /\ Render3D(state.obj3d)
      /\ shown' = Shown(media, state)

\* requestAnimationFrame: the smallest id not queued
FreeId(queue) == CHOOSE id \in 1 .. MaxRaf :
                   id \notin queue /\ \A j \in 1 .. (id - 1) : j \in queue

\* loop(), entered with this.running = run and the callbacks in queue pending
Loop(op, run, queue) ==
  IF ~run
  THEN /\ Observe(op, 0, dirty)
       /\ rafQueue' = queue
       /\ UNCHANGED <<dirty, animId, gifPlayer, currentMesh, autoRotationY, scene,
                      autoFrames, shown, changedSinceRedraw>>
  ELSE /\ IF NeedsRedraw
          THEN /\ dirty' = FALSE
               /\ Render
               /\ Observe(op, 1, dirty)
               /\ changedSinceRedraw' = FALSE
          ELSE /\ Observe(op, 0, dirty)
               /\ UNCHANGED <<dirty, gifPlayer, currentMesh, autoRotationY, scene,
                              autoFrames, shown, changedSinceRedraw>>
       /\ queue # 1 .. MaxRaf
       /\ animId' = FreeId(queue)
       /\ rafQueue' = queue \cup {FreeId(queue)}

\* start()
Start ==
  /\ running' = TRUE
  /\ Loop("start", TRUE, rafQueue)
  /\ UNCHANGED <<appState, effectPending, state, cachedImage, cachedVideo,
                 cachedDataUrl, inflight, lastStart, clearedSince, now>>
  /\ UNCHANGED shapeVars
  /\ UNCHANGED parseVars

\* stop()
Stop ==
  /\ running' = FALSE
  /\ IF animId # 0
     THEN rafQueue' = rafQueue \ {animId} /\ animId' = 0
     ELSE UNCHANGED <<rafQueue, animId>>
  /\ Observe("other", 0, FALSE)
  /\ UNCHANGED <<appState, effectPending, state, dirty, cachedImage, cachedVideo,
                 cachedDataUrl, gifPlayer, currentMesh, scene, autoRotationY, inflight,
                 lastStart, clearedSince, now, changedSinceRedraw, shown, autoFrames>>
  /\ UNCHANGED shapeVars
  /\ UNCHANGED parseVars

\* a callback that does not test this.running
TickIgnoresRunning(id) ==
  /\ id \in rafQueue
  /\ Loop("tick", TRUE, rafQueue \ {id})
  /\ UNCHANGED <<appState, effectPending, state, running, cachedImage, cachedVideo,
                 cachedDataUrl, inflight, lastStart, clearedSince, now>>
  /\ UNCHANGED shapeVars
  /\ UNCHANGED parseVars

\* The animation-frame callback id fires: one tick of loop()
Tick(id) ==
  /\ id \in rafQueue
  /\ Loop("tick", running, rafQueue \ {id})
  /\ UNCHANGED <<appState, effectPending, state, running, cachedImage, cachedVideo,
                 cachedDataUrl, inflight, lastStart, clearedSince, now>>
  /\ UNCHANGED shapeVars
  /\ UNCHANGED parseVars

\* resize()
Resize ==
  /\ dirty' = TRUE
  /\ changedSinceRedraw' = TRUE
  /\ Observe("other", 0, FALSE)
  /\ UNCHANGED <<appState, effectPending, state, running, animId, rafQueue,
                 cachedImage, cachedVideo, cachedDataUrl, gifPlayer, currentMesh,
                 scene, autoRotationY, inflight, lastStart, clearedSince, now,
                 shown, autoFrames>>
  /\ UNCHANGED shapeVars
  /\ UNCHANGED parseVars

\* toSVG(): the state it changes (its document is SvgPrims below)
ToSVG ==
  /\ AutoCap(state.obj3d)
  /\ Render3D(state.obj3d)
  /\ Observe("export", 0, FALSE)
  /\ UNCHANGED <<appState, effectPending, state, running, dirty, animId, rafQueue,
                 cachedImage, cachedVideo, cachedDataUrl, gifPlayer, inflight,
                 lastStart, clearedSince, now, changedSinceRedraw, shown>>
  /\ UNCHANGED shapeVars
  /\ UNCHANGED parseVars

\* performance.now() moves on
TimePasses(dt, max) ==
  /\ now + dt <= max
  /\ now' = now + dt
  /\ Observe("other", 0, FALSE)
  /\ UNCHANGED <<appState, effectPending, state, running, dirty, animId, rafQueue,
                 cachedImage, cachedVideo, cachedDataUrl, gifPlayer, currentMesh,
                 scene, autoRotationY, inflight, lastStart, clearedSince,
                 changedSinceRedraw, shown, autoFrames>>
  /\ UNCHANGED shapeVars
  /\ UNCHANGED parseVars

\* ------------------------------------------------------------ the application
\* The state after CanvasView has mounted: the renderer is constructed and
\* started (start() ran loop() once: the placeholder is drawn and one
\* callback is queued), then the state effect called updateState; the
\* showcase video was not found, so the application starts empty.
InitApp ==
  /\ appState = SHOWCASE_STATE
  /\ effectPending = FALSE
  /\ state = SHOWCASE_STATE
  /\ running = TRUE
  /\ dirty = TRUE
  /\ animId = 1
  /\ rafQueue = {1}
  /\ cachedImage = NULL
  /\ cachedVideo = NULL
  /\ cachedDataUrl = NULL
  /\ gifPlayer = NoGif
  /\ currentMesh = NoMesh
  /\ scene = FALSE
  /\ autoRotationY = 0
  /\ inflight = {}
  /\ lastStart = NoStart
  /\ clearedSince = FALSE
  /\ now = 0
  /\ lastOp = "other"
  /\ tickRedraws = 0
  /\ tickDirty = FALSE
  /\ changedSinceRedraw = TRUE
  /\ shown = [kind |-> "placeholder", src |-> NULL, url |-> NULL]
  /\ autoFrames = 0
  /\ grid = NoGrid
  /\ rasterOut = NotRun
  /\ svgOut = NotRun
  /\ obj = NoObj
  /\ stl = NoStl
  /\ sampleIn = NoSample
  /\ cachedGrid = NoBuffer

Next ==
  \/ \E f \in Files : HandleMediaUpload(f, LoopInflight, FALSE)
  \/ \E f \in inflight : AcquireDone(f)
  \/ HandleClearImage
  \/ UpdateState
  \/ \E id \in rafQueue : Tick(id)
  \/ Resize
  \/ ToSVG
  \/ TimePasses(TimeStep, MaxNow)

Spec == InitApp /\ [][Next]_vars

\* Uploads that overlap, with the record of the one started last
NextRace ==
  \/ \E f \in RaceFiles : HandleMediaUpload(f, MaxInflight, TRUE)
  \/ \E f \in inflight : AcquireDone(f)
  \/ HandleClearImage
  \/ UpdateState
  \/ \E id \in rafQueue : Tick(id)

SpecRace == InitApp /\ [][NextRace]_vars

\* ------------------------------------------------------------ render loop properties
\* The producer getMediaElementFor3D resolves to in the current state
ActiveMedia == getMediaElementFor3D(currentMesh, cachedVideo, gifPlayer, cachedImage)

\* No acquisition is in flight and the renderer holds the application state
Settled == inflight = {} /\ ~effectPending /\ state = appState

\* The active source is a still image, a single-frame GIF, or there is none
StaticSource ==
  \/ ActiveMedia.src \in {NULL, "image"}
  \/ (ActiveMedia.src = "gif" /\ FrameCount(gifPlayer) = 1)

\* The active source is a video, a GIF of more than one frame, or a mesh
AnimatedSource ==
  \/ ActiveMedia.src \in {"video", "obj3d"}
  \/ (ActiveMedia.src = "gif" /\ FrameCount(gifPlayer) > 1)

\* C1: while the loop is running, a tick performs no redraw when there was
\* no updateState() or resize() since the last redraw and the active source
\* is static (still image, single-frame GIF, or no media).
C1_StaticTickIsIdle ==
  [][(lastOp' = "tick" /\ running /\ ~changedSinceRedraw /\ Settled /\ StaticSource)
       => tickRedraws' = 0]_vars

\* C2: while the loop is running, every tick that finds the dirty flag set,
\* or the active media a video, a multi-frame GIF or a mesh, performs
\* exactly one redraw.
C2_DirtyOrAnimatedTickRedrawsOnce ==
  [][(lastOp' = "tick" /\ running /\ (dirty \/ AnimatedSource))
       => tickRedraws' = 1]_vars

\* A tick redrew an animated source although it found the dirty flag clear
C2_Witness ==
  /\ lastOp = "tick" /\ tickRedraws = 1 /\ ~tickDirty
  /\ AnimatedSource /\ state.mediaType = NULL

\* C10: a loaded mesh stays the current mesh across render ticks, and after
\* clear3DObject() has returned (handleClearImage), has3DObject() is false
\* and no later redraw samples the mesh.
C10_MeshKeptUntilCleared ==
  [][/\ (lastOp' = "tick" /\ has3DObject) => currentMesh'.url = currentMesh.url
     /\ lastOp' = "clear" => currentMesh' = NoMesh
     /\ (lastOp' = "tick" /\ clearedSince /\ inflight = {}) => shown'.src # "obj3d"]_vars

\* ------------------------------------------------------------ acquisition properties
\* C3: if acquisition A is started and B is started before A has completed,
\* then once both have completed, in either order, the active media (the
\* caches getMediaElement reads and uploadedImage / mediaType of the
\* application state) is B's.
C3_LastStartedAcquisitionWins ==
  (inflight = {} /\ lastStart.status = "ok" /\ lastStart.over /\ ~clearedSince)
    => /\ ActiveMedia.url = lastStart.url
       /\ appState.uploadedImage = lastStart.url
       /\ appState.mediaType = lastStart.kind

\* C4: after a failed acquisition the loop keeps running and every later
\* redraw shows the mosaic of the media that was active before the failed
\* attempt, or the empty-state placeholder, never the bare background.
C4_FailureShowsPriorOrPlaceholder ==
  (lastStart.status = "failed" /\ ~lastStart.over /\ inflight = {} /\ ~clearedSince)
    => /\ running
       /\ shown.kind # "none" =>
            \/ shown.kind = "placeholder"
            \/ (shown.kind = "mosaic" /\ shown.url = lastStart.prior.url)

\* ------------------------------------------------------------ GIF playback
\* Decoded frames: the patch rectangles, with the patch pixels that are
\* transparent, the disposal types and the declared delays drawn on
PatchShapes ==
  { [left |-> 0, top |-> 0, width |-> GifW, height |-> GifH, holes |-> {}],
    [left |-> 0, top |-> 0, width |-> GifW, height |-> GifH, holes |-> {<<1, 1>>}],
    [left |-> 0, top |-> 0, width |-> 1, height |-> 1, holes |-> {}],
    [left |-> 1, top |-> 0, width |-> 1, height |-> GifH, holes |-> {}] }

Disposals == {1, DisposeRestoreBackground}

Delays == {0, 2}

\* The frame of shape sh painted in colour c
ShapedFrame(sh, d, disp, c) ==
  [left |-> sh.left, top |-> sh.top, width |-> sh.width, height |-> sh.height,
   delay |-> d, disposalType |-> disp,
   patch |-> [q \in (0 .. sh.width - 1) \X (0 .. sh.height - 1) |->
                IF q \in sh.holes THEN 0 ELSE c]]

\* The frame lists of n frames; frame i is painted in colour i
FrameLists(n) ==
  { [i \in 1 .. n |-> ShapedFrame(ch[i][1], ch[i][2], ch[i][3], i)] :
      ch \in [1 .. n -> PatchShapes \X Delays \X Disposals] }

GifFile(frames) == File("gifN", "gif", TRUE, frames, "gif")

\* The mounted application after the upload of a GIF has completed and the
\* state effect has run: the player holds the decoded frames, frame 0 drawn
InitGif ==
  /\ \E n \in 1 .. MaxFrames : \E frames \in FrameLists(n) :
       /\ gifPlayer = GifLoad(GifFile(frames).url, frames, 0)
       /\ appState = UploadedState(SHOWCASE_STATE, GifFile(frames))
       /\ state = UploadedState(SHOWCASE_STATE, GifFile(frames))
       /\ cachedDataUrl = GifFile(frames).url
  /\ effectPending = FALSE
  /\ running = TRUE
  /\ dirty = TRUE
  /\ animId = 1
  /\ rafQueue = {1}
  /\ cachedImage = NULL
  /\ cachedVideo = NULL
  /\ currentMesh = NoMesh
  /\ scene = FALSE
  /\ autoRotationY = 0
  /\ inflight = {}
  /\ lastStart = NoStart
  /\ clearedSince = FALSE
  /\ now = 0
  /\ lastOp = "other"
  /\ tickRedraws = 0
  /\ tickDirty = FALSE
  /\ changedSinceRedraw = TRUE
  /\ shown = NotShown
  /\ autoFrames = 0
  /\ grid = NoGrid
  /\ rasterOut = NotRun
  /\ svgOut = NotRun
  /\ obj = NoObj
  /\ stl = NoStl
  /\ sampleIn = NoSample
  /\ cachedGrid = NoBuffer

NextGif ==
  \/ \E id \in rafQueue : Tick(id)
  \/ TimePasses(TimeStep, MaxNowGif)

SpecGif == InitGif /\ [][NextGif]_vars

\* The frame the player displays in the current state
DisplayedFrame == gifPlayer.frames[gifPlayer.currentIndex + 1]

\* This step is a tick whose redraw advanced the player to another frame
FrameAdvances ==
  /\ lastOp' = "tick"
  /\ gifPlayer # NoGif
  /\ gifPlayer'.currentIndex # gifPlayer.currentIndex

\* Frame f paints pixel p: p is in its rectangle and its patch is opaque there
Paints(f, p) ==
  /\ InRect(p, f.left, f.top, f.width, f.height)
  /\ f.patch[<<p[1] - f.left, p[2] - f.top>>] # 0

\* C5: on every frame advance, the wrap from the last frame to frame 0
\* included, when the frame displayed before the advance has the
\* restore-to-background disposal its rectangle is cleared to transparent
\* before the new patch is painted: a pixel of that rectangle holds the new
\* patch where the new frame paints it and is transparent elsewhere.
C5_RestoreBackgroundClearsOnEveryAdvance ==
  [][(FrameAdvances /\ DisplayedFrame.disposalType = DisposeRestoreBackground)
       => \A p \in Pixels :
            InRect(p, DisplayedFrame.left, DisplayedFrame.top,
                      DisplayedFrame.width, DisplayedFrame.height)
              => gifPlayer'.frameCanvas[p] =
                   IF Paints(DisplayedFrame', p)
                   THEN DisplayedFrame'.patch[<<p[1] - DisplayedFrame'.left,
                                                p[2] - DisplayedFrame'.top>>]
                   ELSE 0]_vars

\* C6: on a frame advance, when the frame displayed before the advance does
\* not have the restore-to-background disposal, every pixel outside the new
\* frame's patch rectangle keeps its value.
C6_OnlyPatchRectangleChanges ==
  [][(FrameAdvances /\ DisplayedFrame.disposalType # DisposeRestoreBackground)
       => \A p \in Pixels :
            ~InRect(p, DisplayedFrame'.left, DisplayedFrame'.top,
                       DisplayedFrame'.width, DisplayedFrame'.height)
              => gifPlayer'.frameCanvas[p] = gifPlayer.frameCanvas[p]]_vars

\* The player has advanced from a frame without the restore-to-background
\* disposal to a frame of a smaller rectangle, and a pixel painted by the
\* earlier frame is still on the canvas outside the new rectangle
C6_Witness ==
  /\ lastOp = "tick"
  /\ gifPlayer # NoGif
  /\ gifPlayer.lastFrameTime > 0
  /\ gifPlayer.currentIndex > 0
  /\ gifPlayer.frames[gifPlayer.currentIndex].disposalType # DisposeRestoreBackground
  /\ \E p \in Pixels :
       /\ ~InRect(p, DisplayedFrame.left, DisplayedFrame.top,
                     DisplayedFrame.width, DisplayedFrame.height)
       /\ gifPlayer.frameCanvas[p] = gifPlayer.currentIndex

\* ------------------------------------------------------------ mesh rotation
MeshFiles == {MeshA, MeshB}

\* Obj3dSettings the panel and the drag handler produce: the angles are
\* multiples of the 0.01 rad a pixel of drag turns the mesh
Obj3dChoices ==
  [autoRotate : BOOLEAN, rotationX : {0, 2 * ROTATION_SPEED},
   rotationY : {0, 2 * ROTATION_SPEED}]

NextMesh ==
  \/ \E f \in MeshFiles : HandleMediaUpload(f, LoopInflight, FALSE)
  \/ \E f \in inflight : AcquireDone(f)
  \/ HandleClearImage
  \/ \E o \in Obj3dChoices : Obj3dChange(o)
  \/ UpdateState
  \/ \E id \in rafQueue : Tick(id)
  \/ ToSVG

SpecMesh == InitApp /\ [][NextMesh]_vars

\* This step renders the current mesh: a tick that redraws, or toSVG()
MeshRendered ==
  /\ has3DObject
  /\ \/ (lastOp' = "tick" /\ tickRedraws' = 1)
     \/ lastOp' = "export"

\* C9: at every rendered frame of a mesh its y rotation is ROTATION_SPEED
\* times the number of frames rendered with auto-rotate on since the mesh
\* was loaded, plus the manual y rotation supplied, and its x rotation is
\* the manual x rotation; the auto-rotation angle never decreases while the
\* mesh is current, stays as it is on a frame rendered with auto-rotate off
\* and on a change of the manual rotation.
C9_RotationIsAutoPlusManual ==
  [][/\ MeshRendered =>
          /\ currentMesh'.rotY = ROTATION_SPEED * autoFrames' + state.obj3d.rotationY
          /\ currentMesh'.rotX = state.obj3d.rotationX
          /\ autoRotationY' >= autoRotationY
          /\ ~state.obj3d.autoRotate => autoRotationY' = autoRotationY
     /\ (has3DObject /\ currentMesh' = currentMesh) => autoRotationY' = autoRotationY
     /\ (has3DObject /\ state'.obj3d # state.obj3d) => autoRotationY' = autoRotationY]_vars

\* A mesh was rendered twice with auto-rotate on, then the manual rotation
\* was changed and a frame rendered with auto-rotate off
C9_Witness ==
  /\ lastOp = "tick" /\ tickRedraws = 1
  /\ has3DObject
  /\ ~state.obj3d.autoRotate
  /\ state.obj3d.rotationY # 0
  /\ autoFrames = 2
  /\ currentMesh.rotY = 2 * ROTATION_SPEED + state.obj3d.rotationY
  /\ currentMesh.rotX = state.obj3d.rotationX

\* ------------------------------------------------------------ computeBrightnessGrid
\* The arguments: media of intrinsic size w x h whose pixel (x, y) is
\* tile[<<x % tw, y % th>>], a grey pixel [v, a] with r = g = b = v and
\* alpha a (0.299 + 0.587 + 0.114 = 1, so its luminance is v / 255); the
\* viewport W x H and the spacing, positive integers; contrast in tenths;
\* brightness; mediaTransform with scale in hundredths; bgBrightness in
\* halves. A grid value is the exact rational value / VDen.
VDen == 20 * 255 * 255 * 2

Px(v, a) == [v |-> v, a |-> a]

White10 == [w |-> 10, h |-> 10, tw |-> 1, th |-> 1, tile |-> (<<0, 0>> :> Px(255, 255))]

Checker2 ==
  [w |-> 2, h |-> 2, tw |-> 2, th |-> 2,
   tile |-> (<<0, 0>> :> Px(255, 255) @@ <<1, 0>> :> Px(0, 255)
               @@ <<0, 1>> :> Px(102, 128) @@ <<1, 1>> :> Px(255, 5))]

Wide4 == [Checker2 EXCEPT !.w = 4]

ZeroW == [White10 EXCEPT !.w = 0]

ZeroH == [White10 EXCEPT !.h = 0]

Medias == {White10, Checker2, Wide4, ZeroW, ZeroH}

PixelAt(media, x, y) == media.tile[<<x % media.tw, y % media.th>>]

MediaTransforms ==
  {Identity, [Identity EXCEPT !.offsetX = 15],
   [scale |-> 200, offsetX |-> 0, offsetY |-> -10]}

\* Math.ceil(a / b), a >= 0 and b > 0 integers
CeilDiv(a, b) == (a + b - 1) \div b

\* (a / b) | 0: the quotient truncated toward zero; NaN | 0 and
\* Infinity | 0 (b = 0) are 0
ToInt32Div(a, b) ==
  IF b = 0 THEN 0
  ELSE IF b < 0 THEN (IF a >= 0 THEN -(a \div (-b)) ELSE (-a) \div (-b))
  ELSE IF a >= 0 THEN a \div b ELSE -((-a) \div b)

\* if (mediaW === 0 || mediaH === 0) -- never taken
ZeroSizedNever(media) == FALSE

\* if (mediaW === 0 || mediaH === 0)
ZeroSized(media) == media.w = 0 \/ media.h = 0

\* imgAspect > canvasAspect
FitWide(a) == a.media.w * a.H > a.W * a.media.h

\* drawW and drawH of the aspect-preserving fit, as <<numerator, denominator>>
DrawW(a) == IF FitWide(a) THEN <<a.W, 1>> ELSE <<a.H * a.media.w, a.media.h>>

DrawH(a) == IF FitWide(a) THEN <<a.W * a.media.h, a.media.w>> ELSE <<a.H, 1>>

\* offsetX and offsetY of the fit, times twice the denominator of drawW / drawH
OffsetX2(a) == IF FitWide(a) THEN 0 ELSE a.W * a.media.h - a.H * a.media.w

OffsetY2(a) == IF FitWide(a) THEN a.H * a.media.w - a.W * a.media.h ELSE 0

\* vx = col * spacing + spacing * 0.5 shifted by the media offset
CellCenterShifted(a, col, row) ==
  <<2 * col * a.spacing + a.spacing + 2 * a.mt.offsetX,
    2 * row * a.spacing + a.spacing + 2 * a.mt.offsetY>>

\* vx = col * spacing + spacing * 0.5, vy = row * spacing + spacing * 0.5,
\* in half pixels
CellCenter(a, col, row) ==
  <<2 * col * a.spacing + a.spacing, 2 * row * a.spacing + a.spacing>>

\* vx - finalOffsetX, times 200 * denominator of drawW, with finalOffsetX =
\* offsetX + (drawW - scaledDrawW) / 2 + mt.offsetX
RelX(a, col, row) ==
  CellCenter(a, col, row)[1] * 100 * DrawW(a)[2] - OffsetX2(a) * 100
    - DrawW(a)[1] * (100 - a.mt.scale) - a.mt.offsetX * 200 * DrawW(a)[2]

RelY(a, col, row) ==
  CellCenter(a, col, row)[2] * 100 * DrawH(a)[2] - OffsetY2(a) * 100
    - DrawH(a)[1] * (100 - a.mt.scale) - a.mt.offsetY * 200 * DrawH(a)[2]

\* mx = ((vx - finalOffsetX) * scaleX) | 0 with scaleX = mediaW / scaledDrawW
SourceX(a, col, row) ==
  ToInt32Div(RelX(a, col, row) * a.media.w, 2 * DrawW(a)[1] * a.mt.scale)

SourceY(a, col, row) ==
  ToInt32Div(RelY(a, col, row) * a.media.h, 2 * DrawH(a)[1] * a.mt.scale)

\* if (mx < 0 || mx >= mediaW || my < 0 || my >= mediaH)
OutOfBounds(a, col, row) ==
  \/ SourceX(a, col, row) < 0 \/ SourceX(a, col, row) >= a.media.w
  \/ SourceY(a, col, row) < 0 \/ SourceY(a, col, row) >= a.media.h

\* lum of a sampled pixel, times 255 * 255 * 2: (0.299 r + 0.587 g + 0.114 b)
\* / 255, and for a < 255 lum * alpha + bgBrightness * (1 - alpha)
BlendedLum(a, p) ==
  IF p.a < 255 THEN p.v * p.a * 2 + a.bg * 255 * (255 - p.a) ELSE p.v * 255 * 2

\* lum = ((lum - 0.5) * contrast) + 0.5 + brightness / 255, times VDen
AdjustedLum(a, p) ==
  (2 * BlendedLum(a, p) - 255 * 255 * 2) * a.contrast + 10 * 255 * 255 * 2
    + 20 * 255 * 2 * a.brightness

\* the stored value without the clamp
ClampNone(x) == x

\* lum < 0 ? 0 : lum > 1 ? 1 : lum
Clamp(x) == IF x < 0 THEN 0 ELSE IF x > VDen THEN VDen ELSE x

\* bgBrightness, times VDen
BgValue(a) == a.bg * (VDen \div 2)

\* The body of the loop for cell (col, row): the value stored in the grid
CellValue(a, col, row) ==
  IF OutOfBounds(a, col, row) THEN BgValue(a)
  ELSE LET p == PixelAt(a.media, SourceX(a, col, row), SourceY(a, col, row))
       IN  IF p.a < 10 THEN BgValue(a) ELSE Clamp(AdjustedLum(a, p))

\* getGridBuffer that keeps the buffer it has
getGridBufferKeep(cg, size) ==
  IF ~cg.alloc THEN [alloc |-> TRUE, size |-> size] ELSE cg

\* getGridBuffer: a new Float32Array(size) unless the cached one has that size
getGridBuffer(cg, size) ==
  IF ~cg.alloc \/ cg.size # size THEN [alloc |-> TRUE, size |-> size] ELSE cg

\* computeBrightnessGrid on the cached buffer cg: the grid returned and the
\* buffer cached afterwards. The loop writes the indices row * cols + col;
\* a write past the end of a Float32Array is dropped and an index it does
\* not write keeps the buffer's earlier content, here 0.
computeBrightnessGrid(a, cg) ==
  IF ZeroSized(a.media) THEN [grid |-> NoGrid, buffer |-> cg]
  ELSE LET cols == CeilDiv(a.W, a.spacing)
           rows == CeilDiv(a.H, a.spacing)
           buf  == getGridBuffer(cg, cols * rows)
       IN  [grid |-> [cols |-> cols, rows |-> rows,
                      cells |-> [j \in 1 .. buf.size |->
                                   IF j <= cols * rows
                                     THEN CellValue(a, (j - 1) % cols, (j - 1) \div cols)
                                     ELSE 0]],
            buffer |-> buf]

\* The centres vx, vy the loop computes, per cell
LoopCenters(a) ==
  IF ZeroSized(a.media) THEN <<>>
  ELSE [c \in (0 .. CeilDiv(a.W, a.spacing) - 1) \X (0 .. CeilDiv(a.H, a.spacing) - 1) |->
          CellCenter(a, c[1], c[2])]


\* ------------------------------------------------------------ shape passes
\* A brightness of the grid is k / BLevels, k in 0 .. BLevels; a radius is
\* the exact rational RadiusNum / RDen.
RDen == 100 * 100 * BLevels

\* the clamped size with invert not read
ClampedSizeNoInvert(m, k) ==
  LET size == m.minSize * BLevels + k * (m.maxSize - m.minSize)
  IN  IF size < 0 THEN 0 ELSE IF size > 100 * BLevels THEN 100 * BLevels ELSE size

\* let b = grid[i]; if (invert) b = 1 - b; size = minScale + b * (maxScale -
\* minScale), clamped to [0, 1]: the numerator over 100 * BLevels
ClampedSize(m, k) ==
  LET b == IF m.invert THEN BLevels - k ELSE k
      size == m.minSize * BLevels + b * (m.maxSize - m.minSize)
  IN  IF size < 0 THEN 0 ELSE IF size > 100 * BLevels THEN 100 * BLevels ELSE size

\* radius = maxRadius * clampedSize, maxRadius = spacing * 0.48
RadiusNum(s, k) == s.grid.density * RadiusFactor * ClampedSize(s.mapping, k)

\* if (radius < 0.3) continue
Skipped(s, k) == RadiusNum(s, k) * 10 < MinRadius * RDen

\* The cells of grid g, as <<col, row>>, and the brightness of a cell
GridCells(g) == (0 .. g.cols - 1) \X (0 .. g.rows - 1)

Brightness(g, c) == g.cells[c[2] * g.cols + c[1] + 1]

\* The element a shape is drawn as / exported as
PrimKind(s) ==
  CASE s.shape = "circle"      -> "circle"
    [] s.shape = "square"      -> "rect"
    [] s.shape = "triangle-up" -> "polygon"
    [] s.shape = "text"        -> "text"
    [] OTHER                   -> IF s.customSvg THEN "path" ELSE "circle"

\* drawText: if (fontSize < 1) return, fontSize = r * 2
TextDrawn(s, k) == ~(2 * RadiusNum(s, k) < MinFontSize * RDen)

\* The raster pass of render() for grid g: per cell drawn, the centre and
\* the radius on the canvas, under ctx.translate(view.offsetX, view.offsetY)
\* and ctx.scale(view.scale, view.scale). Positions are in 1/200 px (the
\* centre of a cell is a multiple of 1/2 px, the scale is in hundredths),
\* radii in 1 / (100 * RDen) px.
RasterPrims(s, g) ==
  { [col |-> c[1], row |-> c[2], kind |-> PrimKind(s),
     x |-> 200 * s.view.offsetX + s.view.scale * (2 * c[1] * s.grid.density + s.grid.density),
     y |-> 200 * s.view.offsetY + s.view.scale * (2 * c[2] * s.grid.density + s.grid.density),
     r |-> s.view.scale * RadiusNum(s, Brightness(g, c))] :
      c \in { d \in GridCells(g) :
                /\ ~Skipped(s, Brightness(g, d))
                /\ s.shape = "text" => TextDrawn(s, Brightness(g, d)) } }

\* r.toFixed(1), in tenths: the nearest tenth, halves up
ToFixed1(num, den) == (20 * num + den) \div (2 * den)

\* The elements of toSVG() for grid g: per cell emitted, the centre
\* (toFixed(1) of a multiple of 1/2 is exact) and the radius rounded to a
\* tenth, in the units of RasterPrims. The view transform is not read.
SvgPrims(s, g) ==
  { [col |-> c[1], row |-> c[2], kind |-> PrimKind(s),
     x |-> 100 * (2 * c[1] * s.grid.density + s.grid.density),
     y |-> 100 * (2 * c[2] * s.grid.density + s.grid.density),
     r |-> ToFixed1(RadiusNum(s, Brightness(g, c)), RDen) * 10 * RDen] :
      c \in { d \in GridCells(g) : ~Skipped(s, Brightness(g, d)) } }

\* The drawing part of render(), on the grid computeBrightnessGrid returned
RasterPass ==
  /\ getMediaElementFor3D(currentMesh, cachedVideo, gifPlayer, cachedImage) # NoMedia
  /\ rasterOut' = [ran |-> TRUE, prims |-> RasterPrims(state, grid)]
  /\ UNCHANGED <<appState, effectPending, state, running, dirty, animId, rafQueue,
                 cachedImage, cachedVideo, cachedDataUrl, gifPlayer, currentMesh,
                 scene, autoRotationY, inflight, lastStart, clearedSince, now,
                 lastOp, tickRedraws, tickDirty, changedSinceRedraw, shown,
                 autoFrames, grid, svgOut>>
  /\ UNCHANGED parseVars

\* The document part of toSVG(), on the grid computeBrightnessGrid returned
SvgPass ==
  /\ getMediaElementFor3D(currentMesh, cachedVideo, gifPlayer, cachedImage) # NoMedia
  /\ svgOut' = [ran |-> TRUE, prims |-> SvgPrims(state, grid)]
  /\ UNCHANGED <<appState, effectPending, state, running, dirty, animId, rafQueue,
                 cachedImage, cachedVideo, cachedDataUrl, gifPlayer, currentMesh,
                 scene, autoRotationY, inflight, lastStart, clearedSince, now,
                 lastOp, tickRedraws, tickDirty, changedSinceRedraw, shown,
                 autoFrames, grid, rasterOut>>
  /\ UNCHANGED parseVars

\* The settings drawn on: every shape kind, with and without a custom path,
\* spacings, size mappings and view transforms (identity, zoomed, panned)
Views == {Identity, [Identity EXCEPT !.scale = 200], [Identity EXCEPT !.offsetX = 10]}

ShapeStates ==
  { [UploadedState(DEFAULT_STATE, ImgA) EXCEPT
       !.shape = sh, !.customSvg = cu, !.grid = [density |-> de],
       !.mapping = [invert |-> inv, minSize |-> mi, maxSize |-> ma], !.view = vw] :
      sh \in {"circle", "square", "triangle-up", "text", "custom"}, cu \in BOOLEAN,
      de \in {5, 20}, inv \in BOOLEAN, mi \in {0, 5}, ma \in {50, 100}, vw \in Views }

\* The brightness grids of one row
Grids ==
  { [cols |-> GridCols, rows |-> 1, cells |-> cells] :
      cells \in [1 .. GridCols -> 0 .. BLevels] }

\* A grid of computeBrightnessGrid in the levels of the shape passes
LevelGrid(g) ==
  [cols |-> g.cols, rows |-> g.rows,
   cells |-> [j \in 1 .. Len(g.cells) |-> (g.cells[j] * BLevels) \div VDen]]

\* The calls of render() on a 100 x 100 viewport with the spacing and the
\* media transform of state s, default contrast and brightness, a black
\* background: for a uniform white source and for media of zero width or
\* height
ShapeSamples(s) ==
  { [called |-> TRUE, media |-> m, W |-> 100, H |-> 100, spacing |-> s.grid.density,
     contrast |-> 10, brightness |-> 0, mt |-> s.mediaTransform, bg |-> 0,
     prevSize |-> -1, centers |-> LoopCenters([media |-> m, W |-> 100, H |-> 100,
                                               spacing |-> s.grid.density])] :
      m \in {White10, ZeroW, ZeroH} }

\* A still image is loaded and displayed under some settings: on a grid of
\* one row of any brightnesses, or on the grid sampled from the media
InitShape ==
  /\ state \in ShapeStates
  /\ appState = state
  /\ \/ /\ sampleIn = NoSample
        /\ grid \in Grids
        /\ cachedGrid = NoBuffer
     \/ /\ sampleIn \in ShapeSamples(state)
        /\ grid = LevelGrid(computeBrightnessGrid(sampleIn, NoBuffer).grid)
        /\ cachedGrid = computeBrightnessGrid(sampleIn, NoBuffer).buffer
  /\ rasterOut = NotRun
  /\ svgOut = NotRun
  /\ obj = NoObj
  /\ stl = NoStl
  /\ effectPending = FALSE
  /\ running = TRUE
  /\ dirty = FALSE
  /\ animId = 1
  /\ rafQueue = {1}
  /\ cachedImage = ImgA.url
  /\ cachedVideo = NULL
  /\ cachedDataUrl = ImgA.url
  /\ gifPlayer = NoGif
  /\ currentMesh = NoMesh
  /\ scene = FALSE
  /\ autoRotationY = 0
  /\ inflight = {}
  /\ lastStart = NoStart
  /\ clearedSince = FALSE
  /\ now = 0
  /\ lastOp = "other"
  /\ tickRedraws = 0
  /\ tickDirty = FALSE
  /\ changedSinceRedraw = FALSE
  /\ shown = NotShown
  /\ autoFrames = 0

NextShape ==
  \/ RasterPass
  \/ SvgPass

SpecShape == InitShape /\ [][NextShape]_vars

\* The cells a pass drew
CellsOf(out) == { <<q.col, q.row>> : q \in out.prims }

\* C7: for every shape kind, brightness grid and mapping, the cells the
\* raster pass draws, the cells toSVG() emits an element for, and the cells
\* whose radius is at least the minimum-radius threshold are the same set.
C7_RasterAndVectorDrawTheSameCells ==
  (rasterOut.ran /\ svgOut.ran)
    => /\ CellsOf(rasterOut) = CellsOf(svgOut)
       /\ CellsOf(svgOut) =
            { c \in GridCells(grid) : ~Skipped(state, Brightness(grid, c)) }

\* C8: under any grid, mapping and view transform, each element of the
\* vector export has the position and the size of the primitive the raster
\* pass draws for the same cell, up to the rounding of the export to one
\* decimal (0.05 px).
C8_VectorMatchesRasterGeometry ==
  (rasterOut.ran /\ svgOut.ran)
    => \A q \in rasterOut.prims : \A v \in svgOut.prims :
         (q.col = v.col /\ q.row = v.row)
           => /\ q.kind = v.kind
              /\ q.x = v.x
              /\ q.y = v.y
              /\ q.r - v.r <= 5 * RDen
              /\ v.r - q.r <= 5 * RDen

\* ------------------------------------------------------------ parseOBJ
\* A number, and NaN: what parseInt and the arithmetic on it yield
Num(v) == [nan |-> FALSE, val |-> v]

NaN == [nan |-> TRUE, val |-> 0]

\* The tokens of a face line, each as its parts between the '/' and each
\* part as parseInt reads it: "-1", "2/1", and a token that is no number
ObjRefs == {<<Num(-1)>>, <<Num(2), Num(1)>>, <<NaN>>}

\* the reference read from the part after the last '/'
ParseRefLast(token) == token[Len(token)]

\* parseInt(parts[i].split('/')[0], 10)
ParseRef(token) == token[1]

\* The lines of an OBJ text: a vertex line with n coordinates, a face line
\* with its references, any other line (comments, vn, vt, blank)
ObjLines ==
  {[tag |-> "v", n |-> k, refs |-> <<>>] : k \in {2, 3}}
    \cup {[tag |-> "f", n |-> Len(r), refs |-> r] :
            r \in UNION {[1 .. k -> ObjRefs] : k \in 0 .. MaxFaceRefs}}
    \cup {[tag |-> "#", n |-> 0, refs |-> <<>>]}

\* faceVerts.push(idx > 0 ? idx - 1 : tempVerts.length + idx)
FaceVert(idx, tempVerts) ==
  IF ~idx.nan /\ idx.val > 0 THEN Num(idx.val - 1)
  ELSE IF idx.nan THEN NaN
  ELSE Num(tempVerts + idx.val)

\* for (i = 1; i < faceVerts.length - 1; i++)
\*   indices.push(faceVerts[i - 1], faceVerts[i], faceVerts[i + 1])
FaceTrianglesStrip(faceVerts) ==
  IF Len(faceVerts) < 3 THEN <<>>
  ELSE [j \in 1 .. 3 * (Len(faceVerts) - 2) |->
          LET i == ((j - 1) \div 3) + 1
              k == (j - 1) % 3
          IN  faceVerts[i + k]]

\* for (i = 1; i < faceVerts.length - 1; i++)
\*   indices.push(faceVerts[0], faceVerts[i], faceVerts[i + 1])
\* (faceVerts is 0-based in the source, 1-based here)
FaceTriangles(faceVerts) ==
  IF Len(faceVerts) < 3 THEN <<>>
  ELSE [j \in 1 .. 3 * (Len(faceVerts) - 2) |->
          LET i == ((j - 1) \div 3) + 1
              k == (j - 1) % 3
          IN  IF k = 0 THEN faceVerts[1] ELSE faceVerts[i + k]]

\* One pass of the loop over the lines of the text. Of tempVerts only the
\* length is kept: the coordinates are read by no index computation.
ObjLine(line) ==
  /\ ~obj.done
  /\ obj.lines < MaxObjLines
  /\ LET faceVerts == [i \in 1 .. Len(line.refs) |-> FaceVert(ParseRef(line.refs[i]), obj.tempVerts)]
     IN  CASE line.tag = "v" /\ line.n >= 3 ->
                /\ obj.tempVerts < MaxObjVerts
                /\ obj' = [obj EXCEPT !.tempVerts = @ + 1, !.lines = @ + 1,
                                      !.tag = "v", !.refs = <<>>, !.face = <<>>]
           [] line.tag = "f" ->
                /\ Len(obj.indices) + Len(FaceTriangles(faceVerts)) <= MaxIndices
                /\ obj' = [obj EXCEPT !.indices = @ \o FaceTriangles(faceVerts),
                                      !.lines = @ + 1, !.tag = "f",
                                      !.refs = line.refs, !.face = faceVerts]
           [] OTHER ->
                obj' = [obj EXCEPT !.lines = @ + 1, !.tag = "#", !.refs = <<>>,
                                   !.face = <<>>]
  /\ UNCHANGED <<appState, effectPending, state, running, dirty, animId, rafQueue,
                 cachedImage, cachedVideo, cachedDataUrl, gifPlayer, currentMesh,
                 scene, autoRotationY, inflight, lastStart, clearedSince, now,
                 lastOp, tickRedraws, tickDirty, changedSinceRedraw, shown,
                 autoFrames, stl, sampleIn, cachedGrid>>
  /\ UNCHANGED shapeVars

\* The text is exhausted: the geometry is built with tempVerts as position
\* attribute and indices as index
ObjEnd ==
  /\ ~obj.done
  /\ obj' = [obj EXCEPT !.done = TRUE]
  /\ UNCHANGED <<appState, effectPending, state, running, dirty, animId, rafQueue,
                 cachedImage, cachedVideo, cachedDataUrl, gifPlayer, currentMesh,
                 scene, autoRotationY, inflight, lastStart, clearedSince, now,
                 lastOp, tickRedraws, tickDirty, changedSinceRedraw, shown,
                 autoFrames, stl, sampleIn, cachedGrid>>
  /\ UNCHANGED shapeVars

NextObj ==
  \/ \E line \in ObjLines : ObjLine(line)
  \/ ObjEnd

SpecObj == InitApp /\ [][NextObj]_vars

\* C11: for every text-format mesh input, in the mesh parseOBJ produces
\* every index is a non-negative integer smaller than the vertex count, and
\* the index count is a multiple of 3.
C11_ObjIndicesInRange ==
  obj.done =>
    /\ \A j \in 1 .. Len(obj.indices) :
         /\ ~obj.indices[j].nan
         /\ obj.indices[j].val >= 0
         /\ obj.indices[j].val < obj.tempVerts
    /\ Len(obj.indices) % 3 = 0

\* C12: a face line with n >= 3 vertex references v0 .. v(n-1) appends
\* exactly n - 2 triangles to the indices, the i-th being (v0, vi, v(i+1)),
\* in that order; a face line with fewer than 3 references appends none.
C12_FaceIsFanTriangulated ==
  [][(obj'.lines = obj.lines + 1 /\ obj'.tag = "f")
       => LET v == obj'.face
              n == Len(v)
              old == Len(obj.indices)
          IN  IF n >= 3
              THEN /\ Len(obj'.indices) = old + 3 * (n - 2)
                   /\ SubSeq(obj'.indices, 1, old) = obj.indices
                   /\ \A i \in 1 .. n - 2 :
                        SubSeq(obj'.indices, old + 3 * (i - 1) + 1, old + 3 * i)
                          = <<v[1], v[i + 1], v[i + 2]>>
              ELSE obj'.indices = obj.indices]_vars

\* A face line of four references, the first three pairwise distinct, was
\* parsed: two triangles were appended
C12_Witness ==
  /\ obj.tag = "f"
  /\ Len(obj.face) = 4
  /\ \A i, j \in 1 .. 3 : i # j => obj.face[i] # obj.face[j]
  /\ Len(obj.indices) = 6

\* ------------------------------------------------------------ parseSTL
\* A buffer of at least 84 bytes: whether its first five bytes read "solid",
\* the uint32 at offset 80, and the 50-byte records after offset 84, each a
\* normal and three vertices (a vertex and a normal stand for their three
\* floats). For a text, recs are its facets in order, each with the normal
\* of its "facet normal" match and its "vertex" matches.
StlRecords ==
  [normal : {1, 2}, verts : {<<1, 2, 3>>, <<4, 5, 6>>}]

StlFacets == StlRecords \cup [normal : {1, 2}, verts : {<<7, 8>>}]

StlBuffers ==
  { [ascii |-> FALSE, count |-> k, recs |-> r] :
      k \in 0 .. MaxTris, r \in UNION {[1 .. n -> StlRecords] : n \in 0 .. MaxTris} }
    \cup
  { [ascii |-> TRUE, count |-> 0, recs |-> r] :
      r \in UNION {[1 .. n -> StlFacets] : n \in 0 .. MaxTris} }

\* normals[idx] = nx, ... of every vertex of triangle 1
StlTriangleNormalOfFirst(buf, i) == buf.recs[1].normal

\* view.getFloat32(offset, true), offset + 4, offset + 8 with offset = 84 +
\* i * 50: the normal stored with triangle i (1-based here)
StlTriangleNormal(buf, i) == buf.recs[i].normal

\* All "vertex" matches of a text, in order
TextVertices(buf) ==
  LET upTo[n \in 0 .. Len(buf.recs)] ==
        IF n = 0 THEN <<>> ELSE upTo[n - 1] \o buf.recs[n].verts
  IN  upTo[Len(buf.recs)]

\* vertexPattern.exec(text) in the facet of normal n, and the push that
\* follows a match: the pattern is global, a failed exec resets lastIndex
\* (counted in matches here)
VertexExec(st, n) ==
  IF st.lastIndex < Len(TextVertices(st.buf))
  THEN [st EXCEPT !.lastIndex = @ + 1,
                  !.vertices = @ \o <<TextVertices(st.buf)[st.lastIndex + 1]>>,
                  !.normals = @ \o <<n>>]
  ELSE [st EXCEPT !.lastIndex = 0]

StlUnchanged ==
  /\ UNCHANGED <<appState, effectPending, state, running, dirty, animId, rafQueue,
                 cachedImage, cachedVideo, cachedDataUrl, gifPlayer, currentMesh,
                 scene, autoRotationY, inflight, lastStart, clearedSince, now,
                 lastOp, tickRedraws, tickDirty, changedSinceRedraw, shown,
                 autoFrames, obj, sampleIn, cachedGrid>>
  /\ UNCHANGED shapeVars

\* parseSTL(buffer) up to its loop
StlOpen(buf) ==
  /\ ~stl.called
  /\ stl' = [called |-> TRUE, buf |-> buf, i |-> 0, lastIndex |-> 0,
             vertices |-> <<>>, normals |-> <<>>, status |-> "running"]
  /\ StlUnchanged

\* One iteration of the loop over the triangleCount triangles of a binary
\* buffer; reading past the end of the buffer throws a RangeError
StlTriangle ==
  /\ stl.status = "running"
  /\ ~stl.buf.ascii
  /\ stl.i < stl.buf.count
  /\ IF stl.i + 1 > Len(stl.buf.recs)
     THEN stl' = [stl EXCEPT !.status = "RangeError"]
     ELSE stl' = [stl EXCEPT
                    !.i = @ + 1,
                    !.vertices = @ \o stl.buf.recs[stl.i + 1].verts,
                    !.normals = @ \o [v \in 1 .. 3 |-> StlTriangleNormal(stl.buf, stl.i + 1)]]
  /\ StlUnchanged

\* parseSTLAscii: one iteration of the loop over the facet matches
StlFacet ==
  /\ stl.status = "running"
  /\ stl.buf.ascii
  /\ stl.i < Len(stl.buf.recs)
  /\ LET n == stl.buf.recs[stl.i + 1].normal
     IN  stl' = [VertexExec(VertexExec(VertexExec(stl, n), n), n) EXCEPT !.i = @ + 1]
  /\ StlUnchanged

\* The loop is over: the geometry gets vertices as position and normals as
\* normal attribute
StlEnd ==
  /\ stl.status = "running"
  /\ stl.i = IF stl.buf.ascii THEN Len(stl.buf.recs) ELSE stl.buf.count
  /\ stl' = [stl EXCEPT !.status = "done"]
  /\ StlUnchanged

NextStl ==
  \/ \E buf \in StlBuffers : StlOpen(buf)
  \/ StlTriangle
  \/ StlFacet
  \/ StlEnd

SpecStl == InitApp /\ [][NextStl]_vars

\* C13: for a binary buffer (first five bytes not "solid") whose header
\* declares K triangles and which holds 84 + 50 * K bytes, parseSTL does not
\* throw and produces exactly K triangles: 3 * K vertices in file order and
\* 3 * K normals, the three vertices of triangle i carrying the normal
\* stored with triangle i.
C13_BinaryStlDecodesKTriangles ==
  (stl.called /\ ~stl.buf.ascii /\ stl.buf.count = Len(stl.buf.recs))
    => /\ stl.status # "RangeError"
       /\ stl.status = "done" =>
            /\ Len(stl.vertices) = 3 * stl.buf.count
            /\ Len(stl.normals) = 3 * stl.buf.count
            /\ \A i \in 1 .. stl.buf.count : \A v \in 1 .. 3 :
                 /\ stl.vertices[3 * (i - 1) + v] = stl.buf.recs[i].verts[v]
                 /\ stl.normals[3 * (i - 1) + v] = stl.buf.recs[i].normal

\* A binary buffer of two triangles of different normals and different
\* vertices was decoded
C13_Witness ==
  /\ stl.status = "done"
  /\ ~stl.buf.ascii
  /\ stl.buf.count = 2
  /\ Len(stl.buf.recs) = 2
  /\ stl.buf.recs[1].normal # stl.buf.recs[2].normal
  /\ stl.buf.recs[1].verts # stl.buf.recs[2].verts
  /\ Len(stl.vertices) = 6

\* ------------------------------------------------------------ load3DObject
\* Files handed to load3DObject: extensions in either case, an extension it
\* does not know, a name without a dot (pop() yields the name), and a binary
\* STL cut short (parseSTL throws a RangeError)
MeshUpper == File("3d://c.OBJ", "obj3d", TRUE, <<>>, "OBJ")
MeshTxt == File("3d://d.txt", "obj3d", TRUE, <<>>, "txt")
MeshTxtUpper == File("3d://e.TXT", "obj3d", TRUE, <<>>, "TXT")
MeshNoDot == File("3d://mesh", "obj3d", TRUE, <<>>, "mesh")
MeshCut == File("3d://f.stl", "obj3d", FALSE, <<>>, "stl")

LoadFiles == {MeshA, MeshB, MeshUpper, MeshTxt, MeshTxtUpper, MeshNoDot, MeshCut}

\* load3DObject that resets the rotation before it tests the extension
load3DObjectResetsFirst(f, mesh, a) ==
  IF ~SupportedExt(f) THEN [error |-> "unsupported", mesh |-> mesh, auto |-> 0]
  ELSE IF ~f.ok THEN [error |-> "failed", mesh |-> mesh, auto |-> 0]
  ELSE [error |-> "ok", mesh |-> [NoMesh EXCEPT !.url = f.url], auto |-> 0]

\* load3DObject(file) with current mesh and auto-rotation angle [mesh, a]:
\* how it settles, the current mesh and the angle after it
load3DObject(f, mesh, a) ==
  IF ~SupportedExt(f) THEN [error |-> "unsupported", mesh |-> mesh, auto |-> a]
  ELSE IF ~f.ok THEN [error |-> "failed", mesh |-> mesh, auto |-> a]
  ELSE [error |-> "ok", mesh |-> [NoMesh EXCEPT !.url = f.url], auto |-> 0]

\* A call of load3DObject(file) settles. The module state is read and
\* written only after the last await, or not at all when it throws.
Load3DObject(f) ==
  /\ LET r == load3DObject(f, currentMesh, autoRotationY)
     IN  /\ currentMesh' = r.mesh
         /\ autoRotationY' = r.auto
         /\ autoFrames' = IF r.error = "ok" THEN 0 ELSE autoFrames
         /\ lastStart' = [url |-> f.url, kind |-> f.kind, status |-> r.error,
                          over |-> FALSE, prior |-> NoMedia,
                          disposed |-> IF r.error = "ok"
                                       THEN Disposes(currentMesh, scene) ELSE NULL]
  /\ Observe("load", 0, FALSE)
  /\ shown' = NotShown
  /\ RendererUnchanged
  /\ UNCHANGED <<appState, effectPending, cachedImage, cachedVideo, cachedDataUrl,
                 gifPlayer, scene, inflight, clearedSince, now, changedSinceRedraw>>
  /\ UNCHANGED shapeVars
  /\ UNCHANGED parseVars

NextLoad ==
  \/ \E f \in LoadFiles : Load3DObject(f)
  \/ \E o \in Obj3dChoices : Obj3dChange(o)
  \/ UpdateState
  \/ \E id \in rafQueue : Tick(id)

SpecLoad == InitApp /\ [][NextLoad]_vars

\* The file load3DObject was last called with
LastLoaded == CHOOSE f \in LoadFiles : f.url = lastStart.url

\* C14: load3DObject on a file whose extension is, in any case, neither obj
\* nor stl fails with the unsupported-format error and leaves the current
\* mesh, the scene and the auto-rotation angle as they were.
C14_UnsupportedExtensionChangesNothing ==
  [][(lastOp' = "load" /\ LastLoaded'.ext \notin {"obj", "OBJ", "stl", "STL"})
       => /\ lastStart'.status = "unsupported"
          /\ currentMesh' = currentMesh
          /\ scene' = scene
          /\ autoRotationY' = autoRotationY]_vars

\* load3DObject failed on an unsupported extension while a mesh that had
\* been rendered and turned was current
C14_Witness ==
  /\ lastOp = "load"
  /\ lastStart.status = "unsupported"
  /\ has3DObject
  /\ currentMesh.parent
  /\ scene
  /\ autoRotationY > 0

\* One call of computeBrightnessGrid, as render() and toSVG() make it
ComputeBrightnessGrid(a) ==
  /\ sampleIn' = [a EXCEPT !.called = TRUE,
                           !.prevSize = IF cachedGrid.alloc THEN cachedGrid.size ELSE -1,
                           !.centers = LoopCenters(a)]
  /\ grid' = computeBrightnessGrid(a, cachedGrid).grid
  /\ cachedGrid' = computeBrightnessGrid(a, cachedGrid).buffer
  /\ UNCHANGED <<appState, effectPending, state, running, dirty, animId, rafQueue,
                 cachedImage, cachedVideo, cachedDataUrl, gifPlayer, currentMesh,
                 scene, autoRotationY, inflight, lastStart, clearedSince, now,
                 lastOp, tickRedraws, tickDirty, changedSinceRedraw, shown,
                 autoFrames, rasterOut, svgOut, obj, stl>>

Viewports == {<<100, 100>>, <<90, 50>>, <<40, 60>>}

Spacings == {20, 30}

SampleArgs ==
  { [called |-> FALSE, media |-> m, W |-> vp[1], H |-> vp[2], spacing |-> s,
     contrast |-> c, brightness |-> b, mt |-> mt, bg |-> bg, prevSize |-> 0,
     centers |-> <<>>] :
      m \in Medias, vp \in Viewports, s \in Spacings, c \in {10, 30},
      b \in {0, 100}, mt \in MediaTransforms, bg \in {0, 1} }

\* A first frame under any settings; later frames on a resized viewport,
\* another spacing or media transform, or another media
NextSample ==
  \/ \E a \in SampleArgs : ~sampleIn.called /\ ComputeBrightnessGrid(a)
  \/ \E vp \in Viewports, s \in Spacings, mt \in MediaTransforms :
       /\ sampleIn.called
       /\ ComputeBrightnessGrid([sampleIn EXCEPT !.W = vp[1], !.H = vp[2],
                                                 !.spacing = s, !.mt = mt])
  \/ \E m \in Medias :
       /\ sampleIn.called
       /\ ComputeBrightnessGrid([sampleIn EXCEPT !.media = m])

SpecSample == InitApp /\ [][NextSample]_vars

\* C15: for media of non-zero intrinsic size the grid returned has cols =
\* ceil(W / s), rows = ceil(H / s) and exactly cols * rows values, whatever
\* the size of the grid of the call before.
C15_GridHasCeilColsRowsAndLength ==
  (sampleIn.called /\ sampleIn.media.w # 0 /\ sampleIn.media.h # 0)
    => /\ grid.cols * sampleIn.spacing >= sampleIn.W
       /\ (grid.cols - 1) * sampleIn.spacing < sampleIn.W
       /\ grid.rows * sampleIn.spacing >= sampleIn.H
       /\ (grid.rows - 1) * sampleIn.spacing < sampleIn.H
       /\ Len(grid.cells) = grid.cols * grid.rows

\* A call on a buffer of another size, larger or smaller
C15_Witness ==
  /\ sampleIn.called
  /\ sampleIn.media.w # 0 /\ sampleIn.media.h # 0
  /\ sampleIn.prevSize > grid.cols * grid.rows
  /\ Len(grid.cells) = 6

\* C16: every value of the grid returned lies in [0, 1].
C16_GridValuesInUnitInterval ==
  sampleIn.called
    => \A j \in 1 .. Len(grid.cells) : grid.cells[j] >= 0 /\ grid.cells[j] <= VDen

\* A sampled pixel whose adjusted luminance is above 1 and one whose
\* adjusted luminance is below 0, both stored clamped
C16_Witness ==
  /\ sampleIn.called
  /\ \E c \in GridCells(grid) :
       /\ ~OutOfBounds(sampleIn, c[1], c[2])
       /\ AdjustedLum(sampleIn, PixelAt(sampleIn.media, SourceX(sampleIn, c[1], c[2]),
                                        SourceY(sampleIn, c[1], c[2]))) > VDen
       /\ Brightness(grid, c) = VDen

\* The centre of cell c lies outside the transformed fit rectangle: left of
\* or above its origin, or at or beyond its right or bottom edge
OutsideFit(a, c) ==
  \/ RelX(a, c[1], c[2]) < 0
  \/ RelX(a, c[1], c[2]) >= 2 * DrawW(a)[1] * a.mt.scale
  \/ RelY(a, c[1], c[2]) < 0
  \/ RelY(a, c[1], c[2]) >= 2 * DrawH(a)[1] * a.mt.scale

\* C17: every cell whose centre lies outside the transformed fit rectangle
\* of the media holds exactly the background brightness.
C17_OutsideCellsGetBackground ==
  (sampleIn.called /\ ~ZeroSized(sampleIn.media))
    => \A c \in GridCells(grid) :
         OutsideFit(sampleIn, c) => Brightness(grid, c) = BgValue(sampleIn)

\* C18: cols, rows and the centre of every cell, (col * spacing + spacing /
\* 2, row * spacing + spacing / 2), are those of the viewport and the
\* spacing alone: the same under every media transform.
C18_GeometryIndependentOfMediaTransform ==
  sampleIn.called
    => /\ \A c \in GridCells(grid) :
            sampleIn.centers[c] =
              <<2 * c[1] * sampleIn.spacing + sampleIn.spacing,
                2 * c[2] * sampleIn.spacing + sampleIn.spacing>>
       /\ \A mt \in MediaTransforms :
            LET other == computeBrightnessGrid([sampleIn EXCEPT !.mt = mt], cachedGrid).grid
            IN  /\ other.cols = grid.cols
                /\ other.rows = grid.rows
                /\ LoopCenters([sampleIn EXCEPT !.mt = mt]) = sampleIn.centers

\* A call under a media transform that is not the identity, in which a cell
\* samples another source pixel than it does under the identity
C18_Witness ==
  /\ sampleIn.called
  /\ sampleIn.mt # Identity
  /\ \E c \in GridCells(grid) :
       /\ ~OutOfBounds(sampleIn, c[1], c[2])
       /\ ~OutOfBounds([sampleIn EXCEPT !.mt = Identity], c[1], c[2])
       /\ SourceX(sampleIn, c[1], c[2]) # SourceX([sampleIn EXCEPT !.mt = Identity], c[1], c[2])

\* 0.48 * spacing * clamp(minSize / 100 + b * (maxSize / 100 - minSize /
\* 100), 0, 1), b = 1 - g when invert is set and g otherwise, for the cell c
\* of the grid: the numerator over RDen
FormulaRadius(c) ==
  LET g == Brightness(grid, c)
      b == IF state.mapping.invert THEN BLevels - g ELSE g
      size == state.mapping.minSize * BLevels
                + b * (state.mapping.maxSize - state.mapping.minSize)
      clamped == IF size < 0 THEN 0 ELSE IF size > 100 * BLevels THEN 100 * BLevels ELSE size
  IN  48 * state.grid.density * clamped

\* The scenario: a 100 x 100 viewport, spacing 20, a uniform white source,
\* discs, minSize 0 and maxSize 100
WhiteScenario ==
  /\ sampleIn.called
  /\ sampleIn.media = White10
  /\ sampleIn.W = 100 /\ sampleIn.H = 100 /\ sampleIn.spacing = 20
  /\ state.grid.density = 20
  /\ state.shape = "circle"
  /\ state.mapping.minSize = 0 /\ state.mapping.maxSize = 100

\* C19: the radius of every shape the raster pass draws (under the scale of
\* the canvas) and of every element the vector export emits (written to one
\* decimal) is 0.48 * spacing * clamp(minSize / 100 + b * (maxSize / 100 -
\* minSize / 100), 0, 1) for the cell's brightness; in the scenario both
\* passes give 25 discs of radius 9.6 without invert and none with invert.
C19_RadiusFollowsMappingFormula ==
  /\ rasterOut.ran
       => \A q \in rasterOut.prims :
            q.r = state.view.scale * FormulaRadius(<<q.col, q.row>>)
  /\ svgOut.ran
       => \A v \in svgOut.prims :
            v.r = ToFixed1(FormulaRadius(<<v.col, v.row>>), RDen) * 10 * RDen
  /\ (WhiteScenario /\ rasterOut.ran)
       => IF state.mapping.invert THEN rasterOut.prims = {}
          ELSE /\ Cardinality(rasterOut.prims) = 25
               /\ \A q \in rasterOut.prims :
                    q.kind = "circle" /\ 10 * q.r = state.view.scale * 96 * RDen
  /\ (WhiteScenario /\ svgOut.ran)
       => IF state.mapping.invert THEN svgOut.prims = {}
          ELSE /\ Cardinality(svgOut.prims) = 25
               /\ \A v \in svgOut.prims : v.kind = "circle" /\ v.r = 96 * 10 * RDen

\* The scenario without invert, drawn and exported
C19_Witness ==
  /\ WhiteScenario
  /\ ~state.mapping.invert
  /\ rasterOut.ran /\ svgOut.ran
  /\ Cardinality(rasterOut.prims) = 25
  /\ Cardinality(svgOut.prims) = 25

\* C20: for media of zero intrinsic width or height the grid returned is
\* empty with cols = rows = 0, and the raster pass and the export on it draw
\* no shape.
C20_ZeroSizedMediaGivesEmptyGrid ==
  (sampleIn.called /\ (sampleIn.media.w = 0 \/ sampleIn.media.h = 0))
    => /\ grid = NoGrid
       /\ rasterOut.ran => rasterOut.prims = {}
       /\ svgOut.ran => svgOut.prims = {}

\* Media of zero width, sampled, drawn and exported
C20_Witness ==
  /\ sampleIn.called
  /\ sampleIn.media.w = 0
  /\ sampleIn.media.h # 0
  /\ grid.cols = 0 /\ grid.rows = 0
  /\ rasterOut.ran /\ svgOut.ran

\* ------------------------------------------------------------ the dirty flag
\* C21: after a redraw the dirty flag is clear when the active source is
\* static, and a dirty flag the redraw found set is still set when the
\* active source is a video, a multi-frame GIF or a mesh.
C21_DirtyClearedOnlyForStaticSource ==
  [][(lastOp' = "tick" /\ tickRedraws' = 1)
       => /\ StaticSource' => ~dirty'
          /\ (AnimatedSource' /\ dirty) => dirty']_vars

\* C22: a tick of the running loop that comes after a resize() or an
\* updateState() with no redraw in between redraws once, with the state
\* updateState supplied last.
C22_ChangeIsRedrawnAtNextTick ==
  [][(lastOp' = "tick" /\ running /\ changedSinceRedraw)
       => /\ tickRedraws' = 1
          /\ ~changedSinceRedraw'
          /\ shown' = Shown(ActiveMedia', state)]_vars

\* A tick redrew a still image, shown as a mosaic, because the flag was set
C22_Witness ==
  /\ lastOp = "tick"
  /\ tickRedraws = 1
  /\ tickDirty
  /\ StaticSource
  /\ state.mediaType = "image"
  /\ shown = [kind |-> "mosaic", src |-> "image", url |-> state.uploadedImage]

\* ------------------------------------------------------------ GIF timing
\* This step is a tick whose redraw called advance() on the loaded player
AdvanceCalled ==
  /\ lastOp' = "tick"
  /\ tickRedraws' = 1
  /\ state.mediaType = "gif"
  /\ gifPlayer # NoGif

\* The time since the displayed frame was shown
Elapsed == now - gifPlayer.lastFrameTime

\* C23: advance() changes nothing when the GIF has one frame or the time
\* since lastFrameTime is below the delay it waits on the displayed frame;
\* otherwise currentIndex becomes (currentIndex + 1) mod frameCount, that
\* one frame is composited on the surface, and lastFrameTime becomes now.
\* currentIndex stays in [0, frameCount).
C23_AdvanceStepsOneFrameOrNothing ==
  [][AdvanceCalled
       => /\ IF FrameCount(gifPlayer) = 1
                  \/ Elapsed < EffectiveDelay(DisplayedFrame.delay)
             THEN gifPlayer' = gifPlayer
             ELSE LET next == (gifPlayer.currentIndex + 1) % FrameCount(gifPlayer)
                  IN  /\ gifPlayer'.currentIndex = next
                      /\ gifPlayer'.lastFrameTime = now
                      /\ gifPlayer'.frames = gifPlayer.frames
                      /\ gifPlayer'.frameCanvas =
                           RenderFrame([gifPlayer EXCEPT !.currentIndex = next],
                                       next).frameCanvas
          /\ gifPlayer'.currentIndex >= 0
          /\ gifPlayer'.currentIndex < FrameCount(gifPlayer')]_vars

\* A tick has just advanced the player from its last frame back to frame 0
C23_Witness ==
  /\ lastOp = "tick"
  /\ tickRedraws = 1
  /\ FrameCount(gifPlayer) > 1
  /\ gifPlayer.currentIndex = 0
  /\ gifPlayer.lastFrameTime > 0
  /\ gifPlayer.lastFrameTime = now

\* C24: for every declared delay d >= 0 of the displayed frame, d = 0
\* included, advance() leaves the frame exactly when max(20, d * 10)
\* milliseconds have elapsed since it was shown.
C24_EffectiveDelayIsMaxOf20AndTenTimes ==
  [][(AdvanceCalled /\ FrameCount(gifPlayer) > 1)
       => (gifPlayer'.currentIndex # gifPlayer.currentIndex
             <=> Elapsed >= Max(20, DisplayedFrame.delay * 10))]_vars

\* ------------------------------------------------------------ mesh replacement
\* C25: whenever load3DObject succeeds while a mesh is current, rendered
\* before or not, the geometry and the material of that mesh are disposed
\* before the new mesh becomes current.
C25_PreviousMeshIsDisposed ==
  [][(lastOp' = "load" /\ lastStart'.status = "ok" /\ has3DObject)
       => /\ lastStart'.disposed = currentMesh.url
          /\ currentMesh'.url = lastStart'.url
          /\ ~currentMesh'.parent]_vars

\* ------------------------------------------------------------ face references
\* C26: in a face line a positive reference k resolves to the k-th vertex
\* of the file (index k - 1 of the positions) and a negative reference -k
\* to the k-th most recent of the vertices declared before the line (index
\* count - k); the reference is the part of the token before the first '/'.
C26_FaceReferenceResolution ==
  [][(obj'.lines = obj.lines + 1 /\ obj'.tag = "f")
       => /\ Len(obj'.face) = Len(obj'.refs)
          /\ \A i \in 1 .. Len(obj'.refs) :
               LET k == obj'.refs[i][1]
               IN  ~k.nan
                     => /\ k.val > 0 => obj'.face[i] = Num(k.val - 1)
                        /\ k.val < 0 => obj'.face[i] = Num(obj.tempVerts + k.val)]_vars

\* After two vertices a face line with the references "2/1" and "-1" was
\* parsed: both resolve to the second vertex
C26_Witness ==
  /\ obj.tag = "f"
  /\ obj.tempVerts = 2
  /\ \E i, j \in 1 .. Len(obj.refs) :
       /\ obj.refs[i] = <<Num(2), Num(1)>>
       /\ obj.face[i] = Num(1)
       /\ obj.refs[j] = <<Num(-1)>>
       /\ obj.face[j] = Num(1)

\* ------------------------------------------------------------ alpha blending
\* The source pixel the cell c samples
SampledPixel(a, c) ==
  PixelAt(a.media, SourceX(a, c[1], c[2]), SourceY(a, c[1], c[2]))

\* C27: a cell that samples an in-bounds pixel of alpha a and luminance L
\* holds backgroundBrightness when a = 0, clamp(((L * a / 255 +
\* backgroundBrightness * (1 - a / 255)) - 0.5) * contrast + 0.5 +
\* brightness / 255, 0, 1) when 0 < a < 255, and clamp((L - 0.5) * contrast
\* + 0.5 + brightness / 255, 0, 1) when a = 255.
C27_AlphaBlendsWithBackground ==
  (sampleIn.called /\ ~ZeroSized(sampleIn.media))
    => \A c \in GridCells(grid) :
         ~OutOfBounds(sampleIn, c[1], c[2])
           => LET p == SampledPixel(sampleIn, c)
                  lum == IF p.a = 255 THEN p.v * 255 * 2
                         ELSE p.v * p.a * 2 + sampleIn.bg * 255 * (255 - p.a)
                  adjusted == (2 * lum - 255 * 255 * 2) * sampleIn.contrast
                                + 10 * 255 * 255 * 2 + 20 * 255 * 2 * sampleIn.brightness
              IN  Brightness(grid, c) =
                    IF p.a = 0 THEN sampleIn.bg * (VDen \div 2)
                    ELSE IF adjusted < 0 THEN 0
                    ELSE IF adjusted > VDen THEN VDen ELSE adjusted

\* ------------------------------------------------------------ export
\* C28: toSVG() leaves the animation state as it was: the auto-rotation
\* angle and the rotation of the mesh, the current frame and the composite
\* surface of the GIF player, and the dirty flag.
C28_ExportKeepsAnimationState ==
  [][lastOp' = "export"
       => /\ autoRotationY' = autoRotationY
          /\ currentMesh'.rotY = currentMesh.rotY
          /\ gifPlayer' = gifPlayer
          /\ dirty' = dirty]_vars

\* ------------------------------------------------------------ one producer
\* Uploads and clears one after the other: an upload or a clear starts only
\* when no acquisition is in flight, every acquisition succeeds, and ticks
\* fall anywhere
NextSeq ==
  \/ \E f \in Files : inflight = {} /\ HandleMediaUpload(f, LoopInflight, FALSE)
  \/ \E f \in inflight : AcquireDone(f)
  \/ inflight = {} /\ HandleClearImage
  \/ UpdateState
  \/ \E id \in rafQueue : Tick(id)

SpecSeq == InitApp /\ [][NextSeq]_vars

\* The producers that are present
Producers ==
  {k \in {"image", "video", "gif", "obj3d"} :
     CASE k = "image" -> cachedImage # NULL
       [] k = "video" -> cachedVideo # NULL
       [] k = "gif"   -> gifPlayer # NoGif
       [] OTHER       -> currentMesh # NoMesh}

\* C29: once every acquisition has completed, at most one of the cached
\* image, the cached video, the GIF player and the current mesh is present,
\* and it is of the kind the application state names as mediaType.
C29_AtMostOneProducerOfStateKind ==
  inflight = {}
    => /\ Cardinality(Producers) <= 1
       /\ \A k \in Producers : appState.mediaType = k

\* ------------------------------------------------------------ start and stop
\* The renderer from its construction on: start() and stop() in any order
\* and number, updateState() and resize(), uploads of a still image and of a
\* video, and the animation-frame callbacks that are queued
LifeFiles == {ImgA, VidA}

NextLife ==
  \/ Start
  \/ Stop
  \/ UpdateState
  \/ Resize
  \/ \E id \in rafQueue : Tick(id)
  \/ \E f \in LifeFiles : HandleMediaUpload(f, LoopInflight, FALSE)
  \/ \E f \in inflight : AcquireDone(f)

SpecLife == Init /\ [][NextLife]_vars

\* C30: from the return of stop() to the next start() no step redraws: a
\* callback that fires, queued before stop() or by an earlier start(), draws
\* nothing and advances nothing.
C30_NoRedrawWhileStopped ==
  [][(~running /\ lastOp' # "start")
       => /\ tickRedraws' = 0
          /\ ~running'
          /\ lastOp' = "tick"
               => /\ shown' = shown
                  /\ dirty' = dirty
                  /\ gifPlayer' = gifPlayer
                  /\ rafQueue' \subseteq rafQueue]_vars

\* After start() twice and stop(), the callback stop() did not cancel has
\* fired with the dirty flag set and a video loaded, and drew nothing
C30_Witness ==
  /\ lastOp = "tick"
  /\ ~running
  /\ tickRedraws = 0
  /\ tickDirty
  /\ dirty
  /\ cachedVideo # NULL
  /\ state.mediaType = "video"

====
